---- MODULE Spec2Model ----
(***************************************************************************)
(* Model of the email orchestrator MCP server (email-orchestrator-mcp.py). *)
(*                                                                         *)
(* The server handles one tool call at a time.  A call runs call_tool to   *)
(* completion: argument extraction, an optional datastore lookup, zero or  *)
(* more SMTP sessions, and the formatting of one textual reply.  The       *)
(* datastore and the SMTP server are external; their answers are inputs    *)
(* of the call (the datastore response, and one outcome per SMTP session). *)
(*                                                                         *)
(* Text is modelled as a sequence of fragments (strings); the text is the  *)
(* concatenation of its fragments.  Python exceptions are modelled as      *)
(* results with raised = TRUE and msg = str(e).                            *)
(***************************************************************************)
EXTENDS Integers, Sequences, FiniteSets, TLC

VARIABLES
    pc,          \* "idle": waiting for a call; "replied": call_tool returned
    name,        \* call_tool's parameter `name`
    arguments,   \* call_tool's parameter `arguments` (a dict: key -> value)
    response,    \* what the datastore answered to the select, if it was asked
    fetch,       \* outcome of orchestrator.get_email_artifact, if it was called
    artifact,    \* call_tool's local `artifact`
    recipients,  \* call_tool's local `recipients`
    results,     \* call_tool's local `results`
    sent,        \* the invocations of orchestrator.send_email made by the call
    io,          \* the datastore and SMTP operations performed by the call
    reply,       \* the list of contents call_tool returned
    escaped,     \* TRUE iff an exception left call_tool
    openConns,   \* number of SMTP connections currently open
    twin         \* outcome of the same call made with `to` as a one-element list

vars == <<pc, name, arguments, response, fetch, artifact, recipients,
          results, sent, io, reply, escaped, openConns, twin>>

----------------------------------------------------------------------------
(* Bounds *)

MaxRecipients == 3

----------------------------------------------------------------------------
(* Values *)

Addresses == {"a@x.com", "b@x.com"}

\* JSON values of an argument: a string or an array of strings.
JStr(s) == [type |-> "string", str |-> s, items |-> <<>>]
JArr(xs) == [type |-> "array", str |-> "", items |-> xs]

RECURSIVE SeqsUpTo(_, _)
SeqsUpTo(S, n) ==
    IF n = 0 THEN {<<>>}
    ELSE LET shorter == SeqsUpTo(S, n - 1)
         IN shorter \cup {Append(s, x) : s \in shorter, x \in S}

ToValues ==
    {JStr(a) : a \in Addresses}
        \cup {JArr(xs) : xs \in SeqsUpTo(Addresses, MaxRecipients)}

\* dicts whose keys are a subset of DOMAIN vals, key k mapped into vals[k]
DictsOf(vals) ==
    UNION {{d \in [present -> UNION {vals[k] : k \in present}] :
               \A k \in present : d[k] \in vals[k]} :
           present \in SUBSET DOMAIN vals}

Has(d, k) == k \in DOMAIN d

\* dict.get(key, default)
Get(d, k, default) == IF Has(d, k) THEN d[k] ELSE default

\* Python truthiness of a str
Truthy(s) == s # ""

\* a dict with no key; also the value of a local that was never assigned
Unset == <<>>

----------------------------------------------------------------------------
(* Inputs of a call *)

ToolNames == {"send_email_direct", "send_email_from_artifact", "no_such_tool"}

ArgumentsOf(tool) ==
    IF tool = "send_email_direct"
    THEN DictsOf([to |-> {JStr(a) : a \in Addresses},
                  subject |-> {JStr("Hi")},
                  html_content |-> {JStr("<p>hi</p>")},
                  context |-> {JStr(""), JStr("Newsletter")}])
    ELSE IF tool = "send_email_from_artifact"
    THEN DictsOf([to |-> ToValues, artifact_id |-> {JStr("123")}])
    ELSE DictsOf([to |-> {JStr("a@x.com")}])

\* rows of the email_artifacts table: title and html_template may be absent or empty
Rows == DictsOf([title |-> {"", "Welcome"}, html_template |-> {"", "<p>hi</p>"}])

\* answers of the datastore to the select: the query fails, or returns zero or one row
Responses ==
    {[kind |-> "error", data |-> <<>>], [kind |-> "ok", data |-> <<>>]}
        \cup {[kind |-> "ok", data |-> <<row>>] : row \in Rows}

NoResponse == [kind |-> "none", data |-> <<>>]

\* outcome of one SMTP session: "ok", or the step that fails
Outcomes == {"ok", "connect", "starttls", "login", "send_message"}

\* one outcome for each SMTP session the call may start
Oracles == [1..MaxRecipients -> Outcomes]

OutcomeAt(oracle, i) == IF i \in DOMAIN oracle THEN oracle[i] ELSE "ok"

----------------------------------------------------------------------------
(* Results of Python calls: a returned value, or a raised exception with   *)
(* its message str(e); `io` lists the external operations performed.       *)

Return(v, ops) == [raised |-> FALSE, msg |-> <<>>, value |-> v, io |-> ops]
Raise(m, ops) == [raised |-> TRUE, msg |-> m, value |-> Unset, io |-> ops]

\* str(e) of the exception the datastore client raises when the query fails
QueryErrorText == <<"datastore unavailable">>

\* str(e) of the exception smtplib raises when the named step fails
SmtpErrorText(step) == <<"smtp " \o step \o " failed">>

\* str(KeyError(key))
KeyErrorText(key) == <<"'" \o key \o "'">>

\* str(e) of the IndexError raised by indexing a list out of range
IndexErrorText == <<"list index out of range">>

----------------------------------------------------------------------------
(* EmailOrchestrator.get_email_artifact *)

SelectOp(artifact_id, ok) ==
    [op |-> "select", table |-> "email_artifacts", id |-> artifact_id, ok |-> ok]

\* the try block: run the select, raise when it returned no row
get_email_artifact_try(artifact_id, resp) ==
    IF resp.kind = "error"
    THEN Raise(QueryErrorText, <<SelectOp(artifact_id, FALSE)>>)
    ELSE IF resp.data = <<>>
    THEN Raise(<<"Email artifact with ID ", artifact_id, " not found">>,
               <<SelectOp(artifact_id, TRUE)>>)
    ELSE Return(resp.data[1], <<SelectOp(artifact_id, TRUE)>>)

\* `except Exception as e: raise ValueError(f"{prefix}{str(e)}")` applied to
\* the outcome r of a try block
reraise(prefix, r) ==
    IF r.raised THEN Raise(<<prefix>> \o r.msg, r.io) ELSE r

\* the except clause wraps every exception raised in the try block
get_email_artifact(artifact_id, resp) ==
    reraise("Failed to retrieve email artifact: ",
            get_email_artifact_try(artifact_id, resp))

----------------------------------------------------------------------------
(* EmailOrchestrator.send_email *)

smtp_username == "sender@x.com"

SmtpOp(op, k, ok) == [op |-> op, send |-> k, ok |-> ok]

\* the steps inside the `with` block, in order
WithSteps == <<"starttls", "login", "send_message">>

StepOp(step, k, ok, msg) ==
    IF step = "send_message"
    THEN [op |-> step, send |-> k, ok |-> ok, msg |-> msg]
    ELSE SmtpOp(step, k, ok)

\* the body of the `with` block: steps run in order until one fails
RECURSIVE with_body(_, _, _, _)
with_body(i, outcome, k, msg) ==
    IF i > Len(WithSteps) THEN <<>>
    ELSE IF WithSteps[i] = outcome THEN <<StepOp(WithSteps[i], k, FALSE, msg)>>
    ELSE <<StepOp(WithSteps[i], k, TRUE, msg)>> \o with_body(i + 1, outcome, k, msg)

FailedOps(ops) == {i \in 1..Len(ops) : ~ops[i].ok}

\* the operation that failed, if any, raises
raise_failed(ops) ==
    IF FailedOps(ops) # {}
    THEN Raise(SmtpErrorText(ops[CHOOSE i \in FailedOps(ops) : TRUE].op), ops)
    ELSE Return(Unset, ops)

\* variant: the connection is closed only when every step succeeded
smtp_session_leaky(outcome, k, msg) ==
    raise_failed(IF outcome = "connect"
                 THEN <<SmtpOp("connect", k, FALSE)>>
                 ELSE IF outcome = "ok"
                 THEN <<SmtpOp("connect", k, TRUE)>>
                          \o with_body(1, outcome, k, msg)
                          \o <<SmtpOp("close", k, TRUE)>>
                 ELSE <<SmtpOp("connect", k, TRUE)>>
                          \o with_body(1, outcome, k, msg))

\* `with smtplib.SMTP(host, port) as server: ...`: the constructor connects
\* (no connection exists if it raises); leaving the block, normally or by an
\* exception, closes the connection; an exception of a step propagates
smtp_session(outcome, k, msg) ==
    raise_failed(IF outcome = "connect"
                 THEN <<SmtpOp("connect", k, FALSE)>>
                 ELSE <<SmtpOp("connect", k, TRUE)>>
                          \o with_body(1, outcome, k, msg)
                          \o <<SmtpOp("close", k, TRUE)>>)

\* the dict send_email returns once the session is over
sent_result(to, subject, html_content, context, session) ==
    IF session.raised
    THEN session
    ELSE Return([success |-> TRUE,
                 message |-> "Email sent successfully",
                 to |-> to,
                 subject |-> subject,
                 context |-> context,
                 content_length |-> Len(html_content)], session.io)

\* the try block of send_email; k numbers the invocation within the call
send_email_try(to, subject, html_content, context, outcome, k) ==
    sent_result(to, subject, html_content, context,
                smtp_session(outcome, k,
                             [Subject |-> subject, From |-> smtp_username,
                              To |-> to, html |-> html_content]))

\* variant of the except clause: the failure is reported in the returned dict
report_failure(to, subject, html_content, context, r) ==
    IF r.raised
    THEN Return([success |-> FALSE,
                 message |-> "Failed to send email",
                 to |-> to,
                 subject |-> subject,
                 context |-> context,
                 content_length |-> Len(html_content)], r.io)
    ELSE r

send_email_no_raise(to, subject, html_content, context, outcome, k) ==
    report_failure(to, subject, html_content, context,
                   send_email_try(to, subject, html_content, context, outcome, k))

\* the except clause wraps every exception raised in the try block
send_email(to, subject, html_content, context, outcome, k) ==
    reraise("Failed to send email: ",
            send_email_try(to, subject, html_content, context, outcome, k))

----------------------------------------------------------------------------
(* call_tool *)

CheckMark == "[U+2705]"
CrossMark == "[U+274C]"

TextContent(text) == [type |-> "text", text |-> text]

NoFetch == [called |-> FALSE, raised |-> FALSE, msg |-> <<>>]

\* the state of a call_tool invocation when it starts
Entry ==
    [raised |-> FALSE, msg |-> <<>>, reply |-> <<>>, response |-> NoResponse,
     fetch |-> NoFetch, artifact |-> Unset, recipients |-> <<>>,
     results |-> <<>>, sent |-> <<>>, io |-> <<>>]

Raised(f, m) == [f EXCEPT !.raised = TRUE, !.msg = m]

Invocation(to, subject, html_content, context) ==
    [to |-> to, subject |-> subject, html_content |-> html_content,
     context |-> context]

\* f after send_email was invoked with these parameters and ended as r
Attempted(f, to, subject, html_content, context, r) ==
    [f EXCEPT !.sent = Append(@, Invocation(to, subject, html_content, context)),
              !.io = @ \o r.io]

\* send_email_direct once send_email ended as `result`
direct_reply(f, result) ==
    IF result.raised THEN Raised(f, result.msg)
    ELSE [f EXCEPT !.reply = <<TextContent(
             <<CheckMark \o " Email sent successfully!\n",
               "To: ", result.value.to, "\n",
               "Subject: ", result.value.subject, "\n",
               "Context: ", result.value.context, "\n",
               "Content length: ", ToString(result.value.content_length),
               " characters">>)>>]

\* result = await orchestrator.send_email(to, subject, html_content, context)
direct_sent(to, subject, html_content, context, result) ==
    direct_reply(Attempted(Entry, to, subject, html_content, context, result),
                 result)

direct_send(to, subject, html_content, context, outcome) ==
    direct_sent(to, subject, html_content, context,
                send_email(to, subject, html_content, context, outcome, 1))

\* the branch name == "send_email_direct"
send_email_direct(args, oracle) ==
    IF ~Has(args, "to") THEN Raised(Entry, KeyErrorText("to"))
    ELSE IF ~Has(args, "subject") THEN Raised(Entry, KeyErrorText("subject"))
    ELSE IF ~Has(args, "html_content")
    THEN Raised(Entry, KeyErrorText("html_content"))
    ELSE direct_send(args["to"].str, args["subject"].str,
                     args["html_content"].str,
                     Get(args, "context", JStr("Direct email")).str,
                     OutcomeAt(oracle, 1))

\* variant: `recipients = list(to)`, which splits a string instead of wrapping it
Recipients_unwrapped(to) == to.items

\* variant: repeated addresses are dropped, keeping the first occurrence
RECURSIVE Dedup(_)
Dedup(xs) ==
    IF xs = <<>> THEN <<>>
    ELSE LET front == Dedup(SubSeq(xs, 1, Len(xs) - 1))
             last == xs[Len(xs)]
         IN IF \E i \in 1..Len(front) : front[i] = last THEN front
            ELSE Append(front, last)

Recipients_deduplicated(to) ==
    IF to.type = "array" THEN Dedup(to.items) ELSE <<to.str>>

\* recipients = to if isinstance(to, list) else [to]
Recipients(to) == IF to.type = "array" THEN to.items ELSE <<to.str>>

\* the loop over recipients, from the i-th on; an exception of send_email
\* leaves the loop
RECURSIVE send_loop(_, _, _, _, _, _)
RECURSIVE loop_body(_, _, _, _, _, _, _)
send_loop(f, i, subject, html_content, context, oracle) ==
    IF i > Len(f.recipients) THEN f
    ELSE loop_body(f, i, subject, html_content, context, oracle,
                   send_email(f.recipients[i], subject, html_content, context,
                              OutcomeAt(oracle, Len(f.sent) + 1),
                              Len(f.sent) + 1))

\* one iteration, once send_email ended as `result`: results.append(result)
loop_body(f, i, subject, html_content, context, oracle, result) ==
    IF result.raised
    THEN Raised(Attempted(f, f.recipients[i], subject, html_content, context,
                          result), result.msg)
    ELSE send_loop([Attempted(f, f.recipients[i], subject, html_content,
                              context, result)
                       EXCEPT !.results = Append(@, result.value)],
                   i + 1, subject, html_content, context, oracle)

\* ", ".join(items)
RECURSIVE Join(_)
Join(items) ==
    IF Len(items) = 0 THEN <<>>
    ELSE IF Len(items) = 1 THEN <<items[1]>>
    ELSE <<items[1], ", ">> \o Join(Tail(items))

\* variant: the aggregate reply takes subject and length from the artifact
\* instead of results[0]
format_response_no_index(f, artifact_id) ==
    [f EXCEPT !.reply = <<TextContent(
        <<CheckMark \o " Email sent from artifact to ",
          ToString(Len(f.recipients)), " recipients!\n",
          "To: ">> \o Join([j \in 1..Len(f.results) |-> f.results[j].to])
        \o <<"\n",
          "Subject: ", Get(f.artifact, "title", ""), "\n",
          "Artifact ID: ", artifact_id, "\n",
          "Artifact Title: ", Get(f.artifact, "title", "Unknown"), "\n",
          "Content length: ",
          ToString(Len(Get(f.artifact, "html_template", ""))),
          " characters">>)>>]

\* the formatting of the response once the loop is over
format_response(f, artifact_id) ==
    IF Len(f.recipients) = 1
    THEN [f EXCEPT !.reply = <<TextContent(
             <<CheckMark \o " Email sent from artifact!\n",
               "To: ", f.results[1].to, "\n",
               "Subject: ", f.results[1].subject, "\n",
               "Artifact ID: ", artifact_id, "\n",
               "Artifact Title: ", Get(f.artifact, "title", "Unknown"), "\n",
               "Content length: ", ToString(f.results[1].content_length),
               " characters">>)>>]
    ELSE IF Len(f.results) = 0
    THEN Raised(f, IndexErrorText)    \* results[0]
    ELSE [f EXCEPT !.reply = <<TextContent(
             <<CheckMark \o " Email sent from artifact to ",
               ToString(Len(f.recipients)), " recipients!\n",
               "To: ">> \o Join([j \in 1..Len(f.results) |-> f.results[j].to])
             \o <<"\n",
               "Subject: ", f.results[1].subject, "\n",
               "Artifact ID: ", artifact_id, "\n",
               "Artifact Title: ", Get(f.artifact, "title", "Unknown"), "\n",
               "Content length: ", ToString(f.results[1].content_length),
               " characters">>)>>]

\* variant: `not subject and not html_content`
MissingFields_both(subject, html_content) ==
    ~Truthy(subject) /\ ~Truthy(html_content)

\* not subject or not html_content
MissingFields(subject, html_content) ==
    ~Truthy(subject) \/ ~Truthy(html_content)

\* the call once get_email_artifact ended as `got`
fetched(resp, got) ==
    [Entry EXCEPT !.response = resp,
                  !.fetch = [called |-> TRUE, raised |-> got.raised,
                             msg |-> got.msg],
                  !.io = got.io,
                  !.artifact = got.value]

\* an exception of the loop propagates, otherwise the response is formatted
after_loop(looped, artifact_id) ==
    IF looped.raised THEN looped ELSE format_response(looped, artifact_id)

\* from the check of the artifact's fields to the response
with_artifact(f, to, artifact_id, subject, html_content, oracle) ==
    IF MissingFields(subject, html_content)
    THEN Raised(f, <<"Email artifact missing required fields: title or html_template">>)
    ELSE after_loop(send_loop([f EXCEPT !.recipients = Recipients(to)], 1,
                              subject, html_content,
                              "Email from artifact " \o artifact_id, oracle),
                    artifact_id)

\* an exception of get_email_artifact propagates, otherwise subject and
\* html_content are taken from the artifact
after_fetch(f, to, artifact_id, oracle) ==
    IF f.fetch.raised THEN Raised(f, f.fetch.msg)
    ELSE with_artifact(f, to, artifact_id, Get(f.artifact, "title", ""),
                       Get(f.artifact, "html_template", ""), oracle)

\* variant: to = arguments.get("to", []) and
\* artifact_id = arguments.get("artifact_id", "")
send_email_from_artifact_lenient(args, resp, oracle) ==
    after_fetch(fetched(resp, get_email_artifact(
                                  Get(args, "artifact_id", JStr("")).str, resp)),
                Get(args, "to", JArr(<<>>)),
                Get(args, "artifact_id", JStr("")).str, oracle)

\* the branch name == "send_email_from_artifact"
send_email_from_artifact(args, resp, oracle) ==
    IF ~Has(args, "to") THEN Raised(Entry, KeyErrorText("to"))
    ELSE IF ~Has(args, "artifact_id")
    THEN Raised(Entry, KeyErrorText("artifact_id"))
    ELSE after_fetch(fetched(resp, get_email_artifact(args["artifact_id"].str,
                                                      resp)),
                     args["to"], args["artifact_id"].str, oracle)

\* the try block of call_tool
call_tool_try(tool, args, resp, oracle) ==
    IF tool = "send_email_direct" THEN send_email_direct(args, oracle)
    ELSE IF tool = "send_email_from_artifact"
    THEN send_email_from_artifact(args, resp, oracle)
    ELSE Raised(Entry, <<"Unknown tool: ", tool>>)

\* the reply built by `except Exception as e`
error_reply(m) == <<TextContent(<<CrossMark \o " Error: ">> \o m)>>

\* `except Exception as e: return [TextContent(...)]` applied to the outcome
\* f of the try block
catch(f) ==
    IF f.raised
    THEN [f EXCEPT !.raised = FALSE, !.reply = error_reply(f.msg)]
    ELSE f

\* variant: `except ValueError`, which lets KeyError and IndexError through
catch_value_errors(f) ==
    IF f.raised /\ f.msg \notin {IndexErrorText, KeyErrorText("to"),
                                 KeyErrorText("subject"),
                                 KeyErrorText("html_content"),
                                 KeyErrorText("artifact_id")}
    THEN [f EXCEPT !.raised = FALSE, !.reply = error_reply(f.msg)]
    ELSE f

call_tool_value_errors_only(tool, args, resp, oracle) ==
    catch_value_errors(call_tool_try(tool, args, resp, oracle))

\* call_tool: every exception of the try block becomes an error reply
call_tool(tool, args, resp, oracle) ==
    catch(call_tool_try(tool, args, resp, oracle))

----------------------------------------------------------------------------
(* The server *)

Count(ops, kind, ok) ==
    Cardinality({i \in 1..Len(ops) : ops[i].op = kind /\ ops[i].ok = ok})

\* the state when call_tool(tool, args) has returned, or raised, as f says
Returned(tool, args, f) ==
    /\ name' = tool
    /\ arguments' = args
    /\ response' = f.response
    /\ fetch' = f.fetch
    /\ artifact' = f.artifact
    /\ recipients' = f.recipients
    /\ results' = f.results
    /\ sent' = f.sent
    /\ io' = f.io
    /\ reply' = f.reply
    /\ escaped' = f.raised
    /\ openConns' = openConns + Count(f.io, "connect", TRUE)
                              - Count(f.io, "close", TRUE)

Init ==
    /\ pc = "idle"
    /\ name = ""
    /\ arguments = Unset
    /\ response = NoResponse
    /\ fetch = NoFetch
    /\ artifact = Unset
    /\ recipients = <<>>
    /\ results = <<>>
    /\ sent = <<>>
    /\ io = <<>>
    /\ reply = <<>>
    /\ escaped = FALSE
    /\ openConns = 0
    /\ twin = Unset

\* the host delivers a tool call; call_tool runs to completion
Call ==
    /\ pc = "idle"
    /\ \E tool \in ToolNames :
         \E args \in ArgumentsOf(tool), resp \in Responses, oracle \in Oracles :
           Returned(tool, args, call_tool(tool, args, resp, oracle))
    /\ pc' = "replied"
    /\ twin' = Unset

\* the host takes the reply; the call's locals are gone
Deliver ==
    /\ pc = "replied"
    /\ pc' = "idle"
    /\ name' = ""
    /\ arguments' = Unset
    /\ response' = NoResponse
    /\ fetch' = NoFetch
    /\ artifact' = Unset
    /\ recipients' = <<>>
    /\ results' = <<>>
    /\ sent' = <<>>
    /\ io' = <<>>
    /\ reply' = <<>>
    /\ escaped' = FALSE
    /\ twin' = Unset
    /\ UNCHANGED openConns

Next == Call \/ Deliver

Spec == Init /\ [][Next]_vars

----------------------------------------------------------------------------
(* The same send_email_from_artifact call made twice against the same      *)
(* datastore and SMTP behaviour: once with `to` a single string (recorded  *)
(* in the call's variables) and once with `to` a one-element list holding  *)
(* that string (recorded in twin).                                         *)

TwinAddresses == Addresses \cup {"c@x.com", "d@x.com"}

TwinArguments(to) ==
    {[to |-> to]}
        \cup {[to |-> to, artifact_id |-> JStr(id)] : id \in {"123", "456"}}

CallTwin ==
    /\ pc = "idle"
    /\ \E a \in TwinAddresses, resp \in Responses, oracle \in Oracles :
         \E args \in TwinArguments(JStr(a)) :
           /\ Returned("send_email_from_artifact", args,
                       call_tool("send_email_from_artifact", args, resp, oracle))
           /\ twin' = call_tool("send_email_from_artifact",
                                [args EXCEPT !["to"] = JArr(<<a>>)], resp, oracle)
    /\ pc' = "replied"

NextTwin == CallTwin \/ Deliver

SpecTwin == Init /\ [][NextTwin]_vars

----------------------------------------------------------------------------
(* Vocabulary of the properties *)

TypeOK ==
    /\ pc \in {"idle", "replied"}
    /\ escaped \in BOOLEAN
    /\ openConns \in Nat

Replied == pc = "replied"

FailureMarker == CrossMark \o " Error: "

\* the reply is one text content
OneText(r) == Len(r) = 1 /\ r[1].type = "text" /\ Len(r[1].text) > 0

IsErrorReply(r) == OneText(r) /\ Head(r[1].text) = FailureMarker

\* the reply is the failure marker followed by the message m
ErrorReplyWith(r, m) == OneText(r) /\ r[1].text = <<FailureMarker>> \o m

IsSuccessReply(r) ==
    /\ OneText(r)
    /\ Head(r[1].text) \in {CheckMark \o " Email sent successfully!\n",
                            CheckMark \o " Email sent from artifact!\n",
                            CheckMark \o " Email sent from artifact to "}

EndsWith(t, m) ==
    Len(m) <= Len(t) /\ SubSeq(t, Len(t) - Len(m) + 1, Len(t)) = m

Direct == name = "send_email_direct"
FromArtifact == name = "send_email_from_artifact"

RequiredOf(tool) ==
    IF tool = "send_email_direct" THEN {"to", "subject", "html_content"}
    ELSE IF tool = "send_email_from_artifact" THEN {"to", "artifact_id"}
    ELSE {}

MissingRequired == RequiredOf(name) \ DOMAIN arguments

\* the SMTP operations of the call, and those of its k-th send_email
SmtpOps == SelectSeq(io, LAMBDA e : e.op # "select")
OpsOf(k) == SelectSeq(io, LAMBDA e : e.op # "select" /\ e.send = k)
FailedSmtp == {i \in 1..Len(io) : io[i].op # "select" /\ ~io[i].ok}
FailedSelect == {i \in 1..Len(io) : io[i].op = "select" /\ ~io[i].ok}

\* the artifact was fetched and has a title and a template
Fetched == fetch.called /\ ~fetch.raised
ValidArtifact ==
    /\ Fetched
    /\ Truthy(Get(artifact, "title", ""))
    /\ Truthy(Get(artifact, "html_template", ""))

\* the recipients as the caller gave them
Given == IF arguments["to"].type = "array" THEN arguments["to"].items
         ELSE <<arguments["to"].str>>

----------------------------------------------------------------------------
(* C1: call_tool returns exactly one textual reply and no exception leaves *)
(* it, whatever the tool name, the arguments, the datastore's answer and   *)
(* the outcome of each SMTP step; and whenever something failed inside the *)
(* call, the reply is the failure marker followed by the message of the    *)
(* error, which carries the message of the underlying cause.               *)
C1_OneReplyNeverEscapes ==
    Replied =>
        /\ ~escaped
        /\ OneText(reply)
        /\ MissingRequired # {} =>
               \E k \in MissingRequired : ErrorReplyWith(reply, KeyErrorText(k))
        /\ RequiredOf(name) = {} =>
               ErrorReplyWith(reply, <<"Unknown tool: ", name>>)
        /\ fetch.raised => ErrorReplyWith(reply, fetch.msg)
        /\ FailedSelect # {} =>
               IsErrorReply(reply) /\ EndsWith(reply[1].text, QueryErrorText)
        /\ Fetched /\ ~ValidArtifact =>
               ErrorReplyWith(reply, <<"Email artifact missing required fields: title or html_template">>)
        /\ FailedSmtp # {} =>
               \E i \in FailedSmtp :
                   ErrorReplyWith(reply, <<"Failed to send email: ">>
                                             \o SmtpErrorText(io[i].op))
        /\ FromArtifact /\ ValidArtifact /\ Given = <<>> =>
               ErrorReplyWith(reply, IndexErrorText)

\* a call whose second send failed at login, after the first was delivered
C1_Witness ==
    /\ Replied
    /\ FromArtifact
    /\ Len(sent) = 2
    /\ \E i \in FailedSmtp : io[i].op = "login" /\ io[i].send = 2
    /\ IsErrorReply(reply)

(* C2: when the fetched artifact has an empty or absent title or           *)
(* html_template, send_email_from_artifact invokes no mail transport for   *)
(* any recipient, whatever the shape or length of `to`, and replies with   *)
(* the error "Email artifact missing required fields: title or             *)
(* html_template".                                                         *)
C2_InvalidArtifactNeverSends ==
    Replied /\ FromArtifact /\ Fetched /\ ~ValidArtifact =>
        /\ sent = <<>>
        /\ SmtpOps = <<>>
        /\ ErrorReplyWith(reply, <<"Email artifact missing required fields: title or html_template">>)

\* an artifact with a title and no template, and a list of three recipients
C2_Witness ==
    /\ Replied
    /\ FromArtifact
    /\ Fetched
    /\ Truthy(Get(artifact, "title", ""))
    /\ ~Has(artifact, "html_template")
    /\ arguments["to"].type = "array"
    /\ Len(arguments["to"].items) = 3
    /\ IsErrorReply(reply)

(* C3: in send_email_from_artifact with a valid artifact, when the send to *)
(* the k-th recipient is the first to fail, recipients 1..k were each      *)
(* attempted exactly once and in list order, the first k-1 sends went      *)
(* through, nothing was attempted for recipients k+1..N, and the reply is  *)
(* a single error reply that carries the failure, not a success summary.   *)
C3_FirstFailureAborts ==
    Replied /\ FromArtifact /\ ValidArtifact =>
        \A i \in FailedSmtp :
            LET k == io[i].send
            IN /\ k \in 1..Len(Given)
               /\ Len(sent) = k
               /\ \A j \in 1..k : sent[j].to = Given[j]
               /\ \A j \in 1..k : Count(OpsOf(j), "connect", TRUE)
                                    + Count(OpsOf(j), "connect", FALSE) = 1
               /\ \A j \in 1..(k - 1) : Count(OpsOf(j), "send_message", TRUE) = 1
               /\ \A j \in 1..Len(io) : io[j].op # "select" => io[j].send <= k
               /\ FailedSmtp = {i}
               /\ ErrorReplyWith(reply, <<"Failed to send email: ">>
                                            \o SmtpErrorText(io[i].op))
               /\ ~IsSuccessReply(reply)

\* three recipients, the second send fails
C3_Witness ==
    /\ Replied
    /\ FromArtifact
    /\ ValidArtifact
    /\ Len(Given) = 3
    /\ \E i \in FailedSmtp : io[i].send = 2
    /\ Len(sent) = 2

(* C5: for either tool, when a required field is missing from the          *)
(* arguments (to, subject or html_content for send_email_direct; to or     *)
(* artifact_id for send_email_from_artifact), the call returns an error    *)
(* reply, sends no mail and performs no datastore operation at all, hence  *)
(* no datastore mutation.                                                  *)
C5_MissingFieldNoEffect ==
    Replied /\ MissingRequired # {} =>
        /\ IsErrorReply(reply)
        /\ sent = <<>>
        /\ io = <<>>
        /\ ~fetch.called

\* send_email_from_artifact with recipients and no artifact_id
C5_Witness ==
    /\ Replied
    /\ FromArtifact
    /\ MissingRequired = {"artifact_id"}
    /\ IsErrorReply(reply)

(* C4: for every address a, artifact id, datastore answer and SMTP         *)
(* behaviour, send_email_from_artifact called with to = a performs the     *)
(* same datastore and SMTP operations, makes the same send_email calls and *)
(* returns the same reply as when called with to = [a].                    *)
C4_StringEqualsSingletonList ==
    Replied /\ twin # Unset =>
        /\ reply = twin.reply
        /\ io = twin.io
        /\ sent = twin.sent
        /\ escaped = twin.raised

\* both calls fetched a valid artifact and delivered the mail
C4_Witness ==
    /\ Replied
    /\ twin # Unset
    /\ arguments["to"].type = "string"
    /\ ValidArtifact
    /\ Len(sent) = 1
    /\ Len(twin.sent) = 1
    /\ IsSuccessReply(reply)
    /\ IsSuccessReply(twin.reply)

(* C6: in send_email_from_artifact with a valid artifact and a list of     *)
(* N > 1 recipients whose sends all succeed, exactly N sends are made, one *)
(* per list element in list order, repeated addresses included, each with  *)
(* the artifact's title as subject, its html_template as body and the      *)
(* context "Email from artifact {artifact_id}"; the aggregate success      *)
(* reply reports the count N and the recipients, comma-joined, in the      *)
(* given order.                                                            *)
C6_AggregateSendInOrder ==
    Replied /\ FromArtifact /\ ValidArtifact /\ Len(Given) > 1
            /\ FailedSmtp = {} =>
        LET N == Len(Given)
            id == arguments["artifact_id"].str
            delivered == SelectSeq(io, LAMBDA e : e.op = "send_message")
        IN /\ Len(sent) = N
           /\ \A j \in 1..N :
                  sent[j] = Invocation(Given[j], artifact["title"],
                                       artifact["html_template"],
                                       "Email from artifact " \o id)
           /\ Len(delivered) = N
           /\ \A j \in 1..N :
                  /\ delivered[j].ok
                  /\ delivered[j].msg.To = Given[j]
                  /\ delivered[j].msg.Subject = artifact["title"]
                  /\ delivered[j].msg.html = artifact["html_template"]
           /\ OneText(reply)
           /\ reply[1].text =
                  <<CheckMark \o " Email sent from artifact to ", ToString(N),
                    " recipients!\n", "To: ">> \o Join(Given) \o
                  <<"\n", "Subject: ", artifact["title"], "\n",
                    "Artifact ID: ", id, "\n",
                    "Artifact Title: ", artifact["title"], "\n",
                    "Content length: ",
                    ToString(Len(artifact["html_template"])), " characters">>

\* three recipients, the first address given twice
C6_Witness ==
    /\ Replied
    /\ FromArtifact
    /\ ValidArtifact
    /\ Given = <<"a@x.com", "a@x.com", "b@x.com">>
    /\ Len(sent) = 3
    /\ IsSuccessReply(reply)

(* C10: send_email_from_artifact returns a success reply only if at least  *)
(* one send was performed and the number of successful sends equals the    *)
(* number of recipients given; with a valid artifact and an empty list of  *)
(* recipients no send is attempted and the reply is an error reply.        *)
C10_SuccessMeansAllSent ==
    Replied /\ FromArtifact =>
        /\ IsSuccessReply(reply) =>
               /\ Len(sent) >= 1
               /\ Count(io, "send_message", TRUE) = Len(Given)
               /\ Len(sent) = Len(Given)
        /\ MissingRequired = {} /\ ValidArtifact /\ Given = <<>> =>
               /\ sent = <<>>
               /\ SmtpOps = <<>>
               /\ IsErrorReply(reply)
               /\ ~IsSuccessReply(reply)

\* a valid artifact and to = []
C10_Witness ==
    /\ Replied
    /\ FromArtifact
    /\ ValidArtifact
    /\ arguments["to"] = JArr(<<>>)
    /\ IsErrorReply(reply)

----------------------------------------------------------------------------
(* Connections of one send_email invocation *)

\* the k-th send_email made at most one connection attempt, first of all
Connects(k) ==
    LET ops == OpsOf(k)
    IN /\ Len(ops) >= 1
       /\ ops[1].op = "connect"
       /\ Count(ops, "connect", TRUE) + Count(ops, "connect", FALSE) = 1

\* at most one message was handed to the connection of the k-th send_email
TransmitsOnce(k) ==
    Count(OpsOf(k), "send_message", TRUE)
        + Count(OpsOf(k), "send_message", FALSE) <= 1

\* the connection of the k-th send_email, if one was opened, was closed once,
\* after every other operation on it
Released(k) ==
    LET ops == OpsOf(k)
    IN IF ops[1].ok
       THEN ops[Len(ops)].op = "close" /\ Count(ops, "close", TRUE) = 1
       ELSE Len(ops) = 1

(* C7 as amended: each send_email invocation makes one connection attempt, *)
(* transmits at most one message over the connection and has released it   *)
(* on every exit path (success, or failure at STARTTLS, login or           *)
(* transmit); after any sequence of tool calls no mail connection is open  *)
(* when a reply is returned; and the number of connections opened equals   *)
(* the number of sends attempted minus those whose connection attempt      *)
(* failed, so it is at most the number of sends attempted.                 *)
C7_ConnectionScoped ==
    Replied =>
        /\ openConns = 0
        /\ \A k \in 1..Len(sent) :
               Connects(k) /\ TransmitsOnce(k) /\ Released(k)
        /\ Count(io, "close", TRUE) = Count(io, "connect", TRUE)
        /\ Count(io, "connect", TRUE)
               = Len(sent) - Count(io, "connect", FALSE)
        /\ Count(io, "connect", TRUE) <= Len(sent)

\* three sends, the third fails when the message is transmitted
C7_Witness ==
    /\ Replied
    /\ Len(sent) = 3
    /\ \E i \in FailedSmtp : io[i].op = "send_message" /\ io[i].send = 3
    /\ Count(io, "connect", TRUE) = 3
    /\ Count(io, "close", TRUE) = 3
    /\ openConns = 0

(* C7 as stated: as above, but with the number of connections opened equal *)
(* to the number of sends attempted.                                       *)
C7_OpenedEqualsAttempted ==
    Replied =>
        /\ openConns = 0
        /\ \A k \in 1..Len(sent) :
               Connects(k) /\ TransmitsOnce(k) /\ Released(k)
        /\ Count(io, "connect", TRUE) = Len(sent)

(* C8: send_email_direct called without a `context` argument uses the      *)
(* default context "": the send is performed with an empty context and the *)
(* success reply echoes an empty context.                                  *)
C8_DefaultContextEmpty ==
    Replied /\ Direct /\ MissingRequired = {} /\ ~Has(arguments, "context") =>
        /\ Len(sent) = 1
        /\ sent[1].context = ""
        /\ IsSuccessReply(reply) =>
               reply[1].text[8] = "Context: " /\ reply[1].text[9] = ""

(* C9: get_email_artifact fails with the not-found failure when the lookup *)
(* succeeds but no row matches the id, and with the retrieval failure      *)
(* (wrapping the underlying cause) only when the query itself fails; a     *)
(* lookup that matches no row is not reported as a retrieval failure.      *)
C9_NotFoundIsNotRetrievalFailure ==
    Replied /\ fetch.called =>
        /\ response.kind = "ok" /\ response.data = <<>> =>
               /\ fetch.raised
               /\ fetch.msg = <<"Email artifact with ID ",
                                arguments["artifact_id"].str, " not found">>
        /\ response.kind = "error" =>
               /\ fetch.raised
               /\ fetch.msg = <<"Failed to retrieve email artifact: ">>
                                  \o QueryErrorText
        /\ fetch.raised
             /\ Head(fetch.msg) = "Failed to retrieve email artifact: " =>
               response.kind = "error"

====
